---- MODULE Spec2Model ----
(***************************************************************************)
(* A model of the BVI social-listening dashboard API: the Post data-access *)
(* layer (models/Post.js), the DashboardController handlers, the database  *)
(* module and the monolithic entry point (server.js) with its startup and  *)
(* shutdown.  Every handler is one atomic action: it reads the request's   *)
(* query parameters, builds the filter, runs the query against the post    *)
(* collection and writes the response.                                     *)
(*                                                                         *)
(* The document database is an external collaborator.  Its operators are   *)
(* modelled by their documented semantics: $avg and $sum ignore values     *)
(* that are not numbers, $add yields null when an operand is null or       *)
(* missing, $unwind drops documents whose array is empty, a range operator *)
(* matches only values of the operand's type, a cursor applies skip before *)
(* limit, limit(0) is no limit, and the order of equal sort keys is not    *)
(* determined.                                                             *)
(***************************************************************************)
EXTENDS Integers, Sequences, FiniteSets, TLC

VARIABLES
    posts,  \* the clean_posts collection, in insertion order
    db,     \* database.db: "null" until connect() completes, then "connected"
    client, \* the MongoClient held by the module: "null" before it is
            \* constructed, then "created", "connected", "failed" or "closed"
    proc,   \* the process: [main, sigint, exit], see the entry point below
    now,    \* the wall clock read by Date.now(), in milliseconds
    req,    \* the request being answered: [endpoint, query]
    res,    \* the response written for req: [status, body]
    issued  \* the query the handler sent to the database

vars == <<posts, db, client, proc, now, req, res, issued>>

(***************************************************************************)
(* Bounds of the model.                                                    *)
(***************************************************************************)
MaxPosts == 3

(***************************************************************************)
(* JavaScript / BSON values.  A number-like value is a tagged rational     *)
(* [k, n, d]: k = "num" is the finite number n/d (d > 0, lowest terms);    *)
(* "nan", "inf", "ninf" are the IEEE specials; "null" and "undefined" are  *)
(* the two ways a document field can hold no number.                       *)
(***************************************************************************)
RECURSIVE GCD(_, _)
GCD(a, b) == IF b = 0 THEN a ELSE GCD(b, a % b)

Abs(i) == IF i < 0 THEN -i ELSE i

Rat(a, b) ==
    LET g == GCD(Abs(a), Abs(b))
        s == IF b < 0 THEN -1 ELSE 1
    IN  [k |-> "num", n |-> (s * a) \div g, d |-> (s * b) \div g]

Num(i) == [k |-> "num", n |-> i, d |-> 1]
NaN == [k |-> "nan", n |-> 0, d |-> 1]
PosInf == [k |-> "inf", n |-> 0, d |-> 1]
NegInf == [k |-> "ninf", n |-> 0, d |-> 1]
Null == [k |-> "null", n |-> 0, d |-> 1]
Undefined == [k |-> "undefined", n |-> 0, d |-> 1]

IsNum(x) == x.k = "num"
IsFinite(x) == x.k = "num"

\* x || 0 on an engagement field: null, undefined, NaN and 0 become 0.
OrZero(x) == IF IsNum(x) /\ x.n # 0 THEN x ELSE Num(0)

\* a + b for number operands.
JsAdd(a, b) ==
    IF IsNum(a) /\ IsNum(b) THEN Rat(a.n * b.d + b.n * a.d, a.d * b.d)
    ELSE IF a.k = "nan" \/ b.k = "nan" THEN NaN
    ELSE IF IsNum(a) THEN b
    ELSE IF IsNum(b) THEN a
    ELSE IF a.k = b.k THEN a ELSE NaN

\* a / b for number operands, as IEEE 754 divides.
JsDiv(a, b) ==
    IF a.k = "nan" \/ b.k = "nan" THEN NaN
    ELSE IF IsNum(a) /\ IsNum(b) THEN
        IF b.n = 0 THEN (IF a.n = 0 THEN NaN ELSE IF a.n > 0 THEN PosInf ELSE NegInf)
        ELSE Rat(a.n * b.d, a.d * b.n)
    ELSE IF IsNum(a) THEN Num(0)
    ELSE IF IsNum(b) THEN (IF (b.n < 0) = (a.k = "inf") THEN NegInf ELSE PosInf)
    ELSE NaN

\* Math.floor
JsFloor(a) == IF IsNum(a) THEN Num(a.n \div a.d) ELSE a

\* a/b < c/d for a, c >= 0 and b, d > 0, by continued fractions (no products)
RECURSIVE FracLess(_, _, _, _)
FracLess(a, b, c, d) ==
    IF a \div b # c \div d THEN a \div b < c \div d
    ELSE IF c % d = 0 THEN FALSE
    ELSE IF a % b = 0 THEN TRUE
    ELSE FracLess(d, c % d, b, a % b)

\* a < b on finite numbers
RatLess(a, b) ==
    IF a.n >= 0 /\ b.n >= 0 THEN FracLess(a.n, a.d, b.n, b.d)
    ELSE IF a.n < 0 /\ b.n < 0 THEN FracLess(-b.n, b.d, -a.n, a.d)
    ELSE a.n < 0

(***************************************************************************)
(* Query-string parameters.  A parameter is absent or a string; a string   *)
(* is a sequence of one-character strings.                                 *)
(***************************************************************************)
QAbsent == [k |-> "undefined", s |-> <<>>]
QStr(s) == [k |-> "str", s |-> s]

\* truthiness of a query parameter: absent and "" are falsy
Truthy(q) == q.k = "str" /\ q.s # <<>>

Digits == {"0", "1", "2", "3", "4", "5", "6", "7", "8", "9"}

DigitVal(c) ==
    CASE c = "0" -> 0 [] c = "1" -> 1 [] c = "2" -> 2 [] c = "3" -> 3
      [] c = "4" -> 4 [] c = "5" -> 5 [] c = "6" -> 6 [] c = "7" -> 7
      [] c = "8" -> 8 [] c = "9" -> 9

\* the value of the longest prefix of s made of digits, after acc; <<>> when
\* s does not start with a digit and nothing was read
RECURSIVE DigitPrefix(_, _, _)
DigitPrefix(s, acc, seen) ==
    IF s # <<>> /\ Head(s) \in Digits
    THEN DigitPrefix(Tail(s), 10 * acc + DigitVal(Head(s)), TRUE)
    ELSE IF seen THEN Num(acc) ELSE NaN

\* parseInt(string): optional sign, then the leading digits; NaN without any
ParseIntStr(s) ==
    IF s # <<>> /\ Head(s) = "-"
    THEN LET m == DigitPrefix(Tail(s), 0, FALSE) IN IF IsNum(m) THEN Num(-m.n) ELSE NaN
    ELSE DigitPrefix(s, 0, FALSE)

\* Number(string), the coercion of an arithmetic operand: the whole string
\* must be a numeral; "" is 0
ToNumberStr(s) ==
    LET body == IF s # <<>> /\ Head(s) = "-" THEN Tail(s) ELSE s
    IN  IF s = <<>> THEN Num(0)
        ELSE IF body # <<>> /\ \A i \in 1..Len(body) : body[i] \in Digits
        THEN ParseIntStr(s)
        ELSE NaN

\* parseInt(v) where v is a query parameter or the numeric default dflt
ParseInt(q, dflt) == IF q.k = "undefined" THEN Num(dflt) ELSE ParseIntStr(q.s)

\* the numeric value of v in an arithmetic expression
ToNumber(q, dflt) == IF q.k = "undefined" THEN Num(dflt) ELSE ToNumberStr(q.s)

(***************************************************************************)
(* Opaque strings (sentiment, platform, sourceId, topic, date strings) are *)
(* TLA+ strings; Absent stands for a parameter or field that is not there. *)
(***************************************************************************)
Absent == "<absent>"

\* truthiness of an opaque string: absent and "" are falsy
TruthyS(s) == s # Absent /\ s # ""

(***************************************************************************)
(* Dates.  A Date is [k |-> "date", t |-> ms since the epoch] or the       *)
(* Invalid Date; Unset marks a bound that a filter does not have.          *)
(***************************************************************************)
HourMs == 3600000
DayMs == 86400000

DateOf(t) == [k |-> "date", t |-> t]
Unset == [k |-> "unset", t |-> 0]

\* new Date(string): ISO date strings parse to their instant, anything else
\* to Invalid Date
NewDate(s) ==
    CASE s = "1970-01-02" -> DateOf(DayMs)
      [] s = "1970-01-03" -> DateOf(2 * DayMs)
      [] s = "1970-01-04" -> DateOf(3 * DayMs)
      [] OTHER -> [k |-> "invalid", t |-> 0]

\* the date strings a request may carry
ValidDateStrings == {"1970-01-02", "1970-01-03", "1970-01-04"}
DateParams == ValidDateStrings \cup {Absent, "", "not-a-date"}

(***************************************************************************)
(* Characters and texts.  A text is [k |-> "str", s |-> characters] or     *)
(* QAbsent when the field is missing.                                      *)
(***************************************************************************)
UpperCase == <<"A", "B", "C", "D", "E", "F", "G", "H", "I", "J", "K", "L", "M",
               "N", "O", "P", "Q", "R", "S", "T", "U", "V", "W", "X", "Y", "Z">>
LowerCase == <<"a", "b", "c", "d", "e", "f", "g", "h", "i", "j", "k", "l", "m",
               "n", "o", "p", "q", "r", "s", "t", "u", "v", "w", "x", "y", "z">>

IsUpper(c) == \E i \in 1..26 : UpperCase[i] = c
IsLower(c) == \E i \in 1..26 : LowerCase[i] = c

\* String.prototype.toLowerCase on one character
LowerChar(c) == IF IsUpper(c) THEN LowerCase[CHOOSE i \in 1..26 : UpperCase[i] = c] ELSE c

ToLowerCase(s) == [i \in 1..Len(s) |-> LowerChar(s[i])]

(***************************************************************************)
(* Posts.                                                                  *)
(***************************************************************************)
BasePost ==
    [postId |-> "p0", platform |-> "twitter", sourceId |-> "s1",
     text |-> QAbsent, combinedText |-> QAbsent,
     sentiment |-> Absent, sentimentConfidence |-> Undefined,
     topics |-> <<>>, likes |-> Undefined, shares |-> Undefined,
     comments |-> Undefined, time |-> DateOf(DayMs)]

\* all collections of at most MaxPosts posts drawn from pool
Collections(pool) == UNION {[1..n -> pool] : n \in 0..MaxPosts}

(***************************************************************************)
(* Filters: the object handed to find / countDocuments / $match.           *)
(*   or        the keyword of the $or of two $regex clauses, or QAbsent    *)
(*   sentiment, platform, sourceId, topics   equality constraints or Absent*)
(*   hasTime   whether the filter has a time key                           *)
(*   gte, lte  time.$gte and time.$lte, Unset when the key is not there    *)
(***************************************************************************)
EmptyFilter ==
    [or |-> QAbsent, sentiment |-> Absent, platform |-> Absent, sourceId |-> Absent,
     topics |-> Absent, hasTime |-> FALSE, gte |-> Unset, lte |-> Unset]

buildDateFilterExclusiveEnd(startDate, endDate) ==
    IF TruthyS(startDate) \/ TruthyS(endDate)
    THEN [hasTime |-> TRUE,
          gte |-> IF TruthyS(startDate) THEN NewDate(startDate) ELSE Unset,
          lte |-> IF TruthyS(endDate)
                  THEN (LET e == NewDate(endDate)
                        IN IF e.k = "date" THEN DateOf(e.t - 1) ELSE e)
                  ELSE Unset]
    ELSE [hasTime |-> FALSE, gte |-> Unset, lte |-> Unset]

\* Post.buildDateFilter(startDate, endDate): the keys it returns
buildDateFilter(startDate, endDate) ==
    IF TruthyS(startDate) \/ TruthyS(endDate)
    THEN [hasTime |-> TRUE,
          gte |-> IF TruthyS(startDate) THEN NewDate(startDate) ELSE Unset,
          lte |-> IF TruthyS(endDate) THEN NewDate(endDate) ELSE Unset]
    ELSE [hasTime |-> FALSE, gte |-> Unset, lte |-> Unset]

\* Object.assign(filter, dateFilter)
AssignDate(filter, df) ==
    IF df.hasTime
    THEN [filter EXCEPT !.hasTime = TRUE, !.gte = df.gte, !.lte = df.lte]
    ELSE filter

\* Post.buildTextSearchFilter(keyword): the $or key, QAbsent when it returns {}
buildTextSearchFilter(keyword) == IF ~Truthy(keyword) THEN QAbsent ELSE keyword

(***************************************************************************)
(* Matching.  {$regex: k, $options: 'i'} treats k as a regular expression: *)
(* "." stands for any character, every other character of the model's      *)
(* alphabet for itself or its other case.  A missing field never matches.  *)
(***************************************************************************)
RegexTest(pattern, field) ==
    /\ field.k = "str"
    /\ \E i \in 0..(Len(field.s) - Len(pattern)) :
          \A j \in 1..Len(pattern) :
              pattern[j] = "." \/ LowerChar(pattern[j]) = LowerChar(field.s[i + j])

\* BsonDate is the instant a Date is stored as: the driver writes getTime(),
\* and the NaN of an Invalid Date as 0
TimeMatches(post, filter) ==
    LET BsonDate(d) == IF d.k = "date" THEN d.t ELSE 0
    IN  /\ filter.gte.k # "unset" =>
              post.time.k = "date" /\ post.time.t >= BsonDate(filter.gte)
        /\ filter.lte.k # "unset" =>
              post.time.k = "date" /\ post.time.t <= BsonDate(filter.lte)

Matches(post, filter) ==
    /\ filter.or.k = "str" =>
          RegexTest(filter.or.s, post.text) \/ RegexTest(filter.or.s, post.combinedText)
    /\ filter.sentiment # Absent => post.sentiment = filter.sentiment
    /\ filter.platform # Absent => post.platform = filter.platform
    /\ filter.sourceId # Absent => post.sourceId = filter.sourceId
    /\ filter.topics # Absent => \E i \in 1..Len(post.topics) : post.topics[i] = filter.topics
    /\ filter.hasTime => TimeMatches(post, filter)

\* the indexes of the matching posts, in collection order
Matching(coll, filter) ==
    LET IsMatch(i) == Matches(coll[i], filter)
    IN  SelectSeq([i \in 1..Len(coll) |-> i], IsMatch)

\* Post.count(filter)
count(coll, filter) == Len(Matching(coll, filter))

(***************************************************************************)
(* Post.find(filter, options).  options.sort is TRUE for {time: -1};       *)
(* options.limit and options.skip are numbers, Undefined when not given.   *)
(***************************************************************************)
NoOptions == [sort |-> FALSE, limit |-> Undefined, skip |-> Undefined]

\* a number that is truthy: not 0, not NaN, not undefined
TruthyNum(x) == (IsNum(x) /\ x.n # 0) \/ x.k \in {"inf", "ninf"}

\* does the cursor get a skip
SkipApplied(options) == TruthyNum(options.skip)

\* the database rejects a negative skip
FindError(options) == SkipApplied(options) /\ IsNum(options.skip) /\ options.skip.n < 0

\* the orders in which a sort by time descending may return the indexes idx
SortedByTimeDesc(coll, idx) ==
    LET n == Len(idx)
        S == {idx[i] : i \in 1..n}
    IN  {p \in [1..n -> S] :
            /\ \A i, j \in 1..n : i # j => p[i] # p[j]
            /\ \A i \in 1..n, j \in 1..n :
                  i < j => coll[p[i]].time.t >= coll[p[j]].time.t}

\* the window of a sequence after skip and limit; a negative limit n is
\* the limit -n
Window(seq, options) ==
    LET sk == IF SkipApplied(options) THEN options.skip.n ELSE 0
        rest == SubSeq(seq, sk + 1, Len(seq))
        lim == IF TruthyNum(options.limit) THEN Abs(options.limit.n) ELSE Len(rest)
    IN  SubSeq(rest, 1, IF lim < Len(rest) THEN lim ELSE Len(rest))

\* the results find may return: sequences of indexes into coll
find(coll, filter, options) ==
    LET idx == Matching(coll, filter)
        orders == IF options.sort THEN SortedByTimeDesc(coll, idx) ELSE {idx}
    IN  {Window(o, options) : o \in orders}

\* the documents at the indexes
Docs(coll, idx) == [i \in 1..Len(idx) |-> coll[idx[i]]]

(***************************************************************************)
(* Responses.  res.json writes NaN and the infinities as null.             *)
(***************************************************************************)
JsonNumber(x) == IF IsNum(x) THEN x ELSE Null

NoReq == [endpoint |-> "none", query |-> <<>>]
NoRes == [status |-> 0, body |-> <<>>]
NoQuery == [op |-> "none", filter |-> EmptyFilter, options |-> NoOptions]

ServerError == [status |-> 500, body |-> [error |-> "Internal server error"]]

\* Requests are independent and share no state but the collection: the
\* model answers one at a time.  A handler takes a request on an idle
\* connection; Deliver hands its response to the client.
Idle == req.endpoint = "none"

Deliver ==
    /\ ~Idle
    /\ req' = NoReq
    /\ res' = NoRes
    /\ issued' = NoQuery
    /\ UNCHANGED <<posts, db, client, proc, now>>

\* database.getDB() throws until connect() has completed
GetDBThrows == db = "null"

\* a getDB() that hands out db without looking at it
QueryNeverThrows == {FALSE}

\* does the query of a handler throw: getDB() throws, or the driver is asked
\* to run an operation on a client that was closed, which it either rejects
\* or answers after connecting again
QueryThrows ==
    IF GetDBThrows THEN {TRUE}
    ELSE IF client = "closed" THEN {TRUE, FALSE}
    ELSE {FALSE}

\* a process that has connected and is serving, with no signal received
Listening == [main |-> "listening", sigint |-> "idle", exit |-> "running"]

(***************************************************************************)
(* GET /api/posts                                                          *)
(***************************************************************************)
DefaultPostsLimit == 50
DefaultPostsSkip == 0

PostsQuery(keyword, sentiment, startDate, endDate, platform, sourceId, topic, limit, skip) ==
    [keyword |-> keyword, sentiment |-> sentiment, startDate |-> startDate,
     endDate |-> endDate, platform |-> platform, sourceId |-> sourceId,
     topic |-> topic, limit |-> limit, skip |-> skip]

\* the filter getPosts builds from the query
PostsFilter(q) ==
    AssignDate(
        [EmptyFilter EXCEPT
            !.or = IF Truthy(q.keyword) THEN buildTextSearchFilter(q.keyword) ELSE QAbsent,
            !.sentiment = IF TruthyS(q.sentiment) THEN q.sentiment ELSE Absent,
            !.platform = IF TruthyS(q.platform) THEN q.platform ELSE Absent,
            !.sourceId = IF TruthyS(q.sourceId) THEN q.sourceId ELSE Absent,
            !.topics = IF TruthyS(q.topic) THEN q.topic ELSE Absent],
        buildDateFilter(q.startDate, q.endDate))

PostsOptions(q) ==
    [sort |-> TRUE,
     limit |-> ParseInt(q.limit, DefaultPostsLimit),
     skip |-> ParseInt(q.skip, DefaultPostsSkip)]

\* Math.floor(skip / limit) + 1 on the raw parameters
PostsPage(q) ==
    JsAdd(JsFloor(JsDiv(ToNumber(q.skip, DefaultPostsSkip),
                        ToNumber(q.limit, DefaultPostsLimit))), Num(1))

getPosts(q) ==
    LET filter == PostsFilter(q)
        options == PostsOptions(q)
    IN  /\ Idle
        /\ req' = [endpoint |-> "posts", query |-> q]
        /\ \E throws \in QueryThrows : IF throws
           THEN /\ res' = ServerError
                /\ issued' = NoQuery
           ELSE /\ issued' = [op |-> "find", filter |-> filter, options |-> options]
                /\ IF FindError(options)
                   THEN res' = ServerError
                   ELSE \E idx \in find(posts, filter, options) :
                          res' = [status |-> 200,
                                  body |-> [posts |-> Docs(posts, idx),
                                            total |-> count(posts, filter),
                                            page |-> JsonNumber(PostsPage(q))]]
        /\ UNCHANGED <<posts, db, client, proc, now>>

(***************************************************************************)
(* The post listing under test: collections of distinct posts drawn from a *)
(* pool, and requests that vary the keyword, the date range, or the        *)
(* sentiment with the paging parameters.                                   *)
(***************************************************************************)
PostPool ==
    {[BasePost EXCEPT !.postId = "p1", !.text = QStr(<<"a", "b">>),
                      !.combinedText = QStr(<<"a", "b">>),
                      !.sentiment = "positive", !.time = DateOf(DayMs)],
     [BasePost EXCEPT !.postId = "p2", !.text = QStr(<<"A", ".">>),
                      !.sentiment = "negative", !.time = DateOf(2 * DayMs)],
     [BasePost EXCEPT !.postId = "p3", !.combinedText = QStr(<<"x", "B">>),
                      !.sentiment = "positive", !.time = DateOf(2 * DayMs)],
     [BasePost EXCEPT !.postId = "p4", !.text = QStr(<<"b">>),
                      !.combinedText = QStr(<<"b", "a">>),
                      !.sentiment = "positive", !.time = DateOf(3 * DayMs)],
     [BasePost EXCEPT !.postId = "p5", !.text = QStr(<<>>),
                      !.combinedText = QStr(<<>>),
                      !.time = DateOf(DayMs + HourMs)]}

\* postId identifies a post within the collection
UniqueIds(coll) == \A i, j \in 1..Len(coll) : coll[i].postId = coll[j].postId => i = j

Init ==
    /\ posts \in {c \in Collections(PostPool) : UniqueIds(c)}
    /\ db = "connected"
    /\ client = "connected"
    /\ proc = Listening
    /\ now = 0
    /\ req = NoReq
    /\ res = NoRes
    /\ issued = NoQuery

GetPostsByKeyword ==
    \E keyword \in {QAbsent, QStr(<<>>), QStr(<<"a">>), QStr(<<"B">>), QStr(<<".">>),
                     QStr(<<"a", "b">>), QStr(<<"a", ".">>), QStr(<<"x", "b">>),
                     QStr(<<"c">>)} :
        getPosts(PostsQuery(keyword, Absent, Absent, Absent, Absent, Absent, Absent,
                            QAbsent, QAbsent))

GetPostsByDate ==
    \E startDate \in DateParams, endDate \in DateParams :
        getPosts(PostsQuery(QAbsent, Absent, startDate, endDate, Absent, Absent, Absent,
                            QAbsent, QAbsent))

GetPostsPaged ==
    \E sentiment \in {Absent, "positive", "negative"},
       limit \in {QAbsent, QStr(<<"0">>), QStr(<<"1">>), QStr(<<"2">>),
                  QStr(<<"-", "1">>), QStr(<<"x">>), QStr(<<"2", "x">>)},
       skip \in {QAbsent, QStr(<<"0">>), QStr(<<"1">>), QStr(<<"2">>),
                 QStr(<<"-", "1">>)} :
        getPosts(PostsQuery(QAbsent, sentiment, Absent, Absent, Absent, Absent, Absent,
                            limit, skip))

Next == GetPostsByKeyword \/ GetPostsByDate \/ GetPostsPaged \/ Deliver

Spec == Init /\ [][Next]_vars

(***************************************************************************)
(* Properties of the post listing.                                         *)
(***************************************************************************)
Answered(endpoint) == req.endpoint = endpoint /\ res.status # 0

\* a date parameter that is a non-empty string and parses to no date
UnparsableDate(s) == TruthyS(s) /\ NewDate(s).k = "invalid"

\* a date parameter that is not given
NotGiven(s) == s = Absent

\* the ids of the posts in a response, as a set
IdsOf(docs) == {docs[i].postId : i \in 1..Len(docs)}

\* only the named parameter group of the listing is in use
OnlyDates(q) ==
    /\ ~Truthy(q.keyword) /\ ~TruthyS(q.sentiment) /\ ~TruthyS(q.platform)
    /\ ~TruthyS(q.sourceId) /\ ~TruthyS(q.topic)
    /\ q.limit = QAbsent /\ q.skip = QAbsent

OnlyKeyword(q) ==
    /\ ~TruthyS(q.sentiment) /\ ~TruthyS(q.platform) /\ ~TruthyS(q.sourceId)
    /\ ~TruthyS(q.topic) /\ ~TruthyS(q.startDate) /\ ~TruthyS(q.endDate)
    /\ q.limit = QAbsent /\ q.skip = QAbsent

\* C2: a request whose startDate or endDate is a non-empty string that parses
\* to no valid date ends in a validation error: no query is sent to the
\* database and the response is not a success.
C2_InvalidDateIsRejected ==
    (Answered("posts") /\ (UnparsableDate(req.query.startDate)
                           \/ UnparsableDate(req.query.endDate)))
        => (res.status # 200 /\ issued.op = "none")

\* C3: with valid or absent dates the filter carries exactly the supplied
\* bounds (time >= startDate, time <= endDate, both inclusive, nothing on a
\* side that was not supplied, no time key when neither was), and the
\* listing selects exactly the posts within the supplied bounds.
C3_WithinBounds(p, q) ==
    /\ ~NotGiven(q.startDate) => p.time.t >= NewDate(q.startDate).t
    /\ ~NotGiven(q.endDate) => p.time.t <= NewDate(q.endDate).t

C3_OneSidedBounds ==
    (/\ Answered("posts")
     /\ OnlyDates(req.query)
     /\ req.query.startDate \in ValidDateStrings \cup {Absent}
     /\ req.query.endDate \in ValidDateStrings \cup {Absent})
        => /\ res.status = 200
           /\ issued.filter.hasTime
                 = (~NotGiven(req.query.startDate) \/ ~NotGiven(req.query.endDate))
           /\ issued.filter.gte = IF NotGiven(req.query.startDate) THEN Unset
                                  ELSE NewDate(req.query.startDate)
           /\ issued.filter.lte = IF NotGiven(req.query.endDate) THEN Unset
                                  ELSE NewDate(req.query.endDate)
           /\ IdsOf(res.body.posts)
                 = {posts[i].postId : i \in {j \in 1..Len(posts) :
                                               C3_WithinBounds(posts[j], req.query)}}
           /\ res.body.total
                 = Cardinality({j \in 1..Len(posts) : C3_WithinBounds(posts[j], req.query)})

\* C3 witnesses: a start-only request that kept a post dated exactly at the
\* bound and dropped an earlier one, with later posts kept (no upper bound).
C3_Witness ==
    /\ Answered("posts")
    /\ OnlyDates(req.query)
    /\ req.query.startDate = "1970-01-03"
    /\ req.query.endDate = Absent
    /\ res.status = 200
    /\ \E i \in 1..Len(res.body.posts) : res.body.posts[i].time.t = 2 * DayMs
    /\ \E i \in 1..Len(res.body.posts) : res.body.posts[i].time.t = 3 * DayMs
    /\ res.body.total < Len(posts)

\* k occurs in the field as a case-insensitive substring
ContainsIgnoreCase(k, field) ==
    /\ field.k = "str"
    /\ \E i \in 0..(Len(field.s) - Len(k)) :
          \A j \in 1..Len(k) : LowerChar(k[j]) = LowerChar(field.s[i + j])

\* C4: with a non-empty keyword k the listing returns exactly the posts in
\* which k occurs as a case-insensitive substring of text or combinedText,
\* each once; an empty or absent keyword adds no constraint.
C4_KeywordIsSubstringMatch ==
    (Answered("posts") /\ OnlyKeyword(req.query))
        => /\ res.status = 200
           /\ Len(res.body.posts) = Cardinality(IdsOf(res.body.posts))
           /\ IdsOf(res.body.posts)
                 = {posts[i].postId : i \in {j \in 1..Len(posts) :
                        Truthy(req.query.keyword) =>
                            \/ ContainsIgnoreCase(req.query.keyword.s, posts[j].text)
                            \/ ContainsIgnoreCase(req.query.keyword.s, posts[j].combinedText)}}

\* a paging parameter that is absent or a numeral without sign
IsNumeral(q) == q.k = "undefined" \/ (q.s # <<>> /\ \A i \in 1..Len(q.s) : q.s[i] \in Digits)

\* C5: the listing holds the matching posts ordered by time descending at
\* positions S..S+L-1 (at most L posts), total counts every matching post,
\* and page is floor(S/L)+1, a finite positive integer.
C5_PagingContract ==
    (/\ Answered("posts")
     /\ IsNumeral(req.query.limit)
     /\ IsNumeral(req.query.skip))
        => LET L == ParseInt(req.query.limit, DefaultPostsLimit).n
               S == ParseInt(req.query.skip, DefaultPostsSkip).n
               n == Len(res.body.posts)
               all == {j \in 1..Len(posts) : Matches(posts[j], PostsFilter(req.query))}
           IN  /\ res.status = 200
               /\ n <= L
               /\ n = (IF Cardinality(all) - S < 0 THEN 0
                       ELSE IF Cardinality(all) - S < L THEN Cardinality(all) - S ELSE L)
               /\ \A i \in 1..n, j \in 1..n :
                     i < j => res.body.posts[i].time.t >= res.body.posts[j].time.t
               /\ IdsOf(res.body.posts) \subseteq {posts[j].postId : j \in all}
               /\ res.body.total = Cardinality(all)
               /\ IsNum(res.body.page)
               /\ res.body.page.d = 1
               /\ res.body.page.n >= 1
               /\ L > 0 => res.body.page.n = (S \div L) + 1

(***************************************************************************)
(* Aggregation operators of the database.                                  *)
(***************************************************************************)
RECURSIVE SumInts(_)
SumInts(seq) == IF seq = <<>> THEN 0 ELSE Head(seq) + SumInts(Tail(seq))

\* the numbers among the values
RECURSIVE NumericOnly(_)
NumericOnly(vals) ==
    IF vals = <<>> THEN <<>>
    ELSE IF IsNum(Head(vals)) THEN <<Head(vals)>> \o NumericOnly(Tail(vals))
    ELSE NumericOnly(Tail(vals))

RECURSIVE SumRats(_)
SumRats(vals) == IF vals = <<>> THEN Num(0) ELSE JsAdd(Head(vals), SumRats(Tail(vals)))

\* $sum: the sum of the numeric values, 0 when there is none
MongoSum(vals) == SumRats(NumericOnly(vals))

\* $avg: the mean of the numeric values, null when there is none
MongoAvg(vals) ==
    LET nums == NumericOnly(vals)
        total == SumRats(nums)
    IN  IF nums = <<>> THEN Null ELSE Rat(total.n, total.d * Len(nums))

\* $add: null when an operand is null or missing
MongoAdd3(a, b, c) ==
    IF IsNum(a) /\ IsNum(b) /\ IsNum(c) THEN JsAdd(JsAdd(a, b), c) ELSE Null

\* the sequences that order the set S by key descending (key a function on
\* S); equal keys in any order
SortedDesc(S, key) ==
    LET n == Cardinality(S)
    IN  {p \in [1..n -> S] :
            /\ \A i, j \in 1..n : i # j => p[i] # p[j]
            /\ \A i \in 1..n, j \in 1..n : i < j => key[p[i]] >= key[p[j]]}

\* the documents of the collection that pass {$match: filter}
MatchedDocs(coll, filter) == Docs(coll, Matching(coll, filter))

\* the values of '$field' over the documents
FieldValues(docs, field) == [i \in 1..Len(docs) |-> docs[i][field]]

(***************************************************************************)
(* GET /api/stats/overview                                                 *)
(***************************************************************************)
\* {$group: {_id: '$field', count: {$sum: 1}}}: the rows, in no order
GroupCount(coll, field) ==
    {[id |-> v, count |-> Cardinality({i \in 1..Len(coll) : coll[i][field] = v})] :
        v \in {coll[i][field] : i \in 1..Len(coll)}}

\* {$group: {_id: null, avgLikes: {$avg: '$likes'}, ...}}: one row, none
\* for an empty collection
AvgEngagementRows(coll) ==
    IF coll = <<>> THEN <<>>
    ELSE <<[avgLikes |-> MongoAvg(FieldValues(coll, "likes")),
            avgShares |-> MongoAvg(FieldValues(coll, "shares")),
            avgComments |-> MongoAvg(FieldValues(coll, "comments"))]>>

getOverviewStats ==
    /\ Idle
    /\ req' = [endpoint |-> "overview", query |-> <<>>]
    /\ \E throws \in QueryThrows : IF throws
       THEN /\ res' = ServerError
            /\ issued' = NoQuery
       ELSE LET avgEngagement == AvgEngagementRows(posts)
            IN  /\ issued' = [op |-> "aggregate", filter |-> EmptyFilter, options |-> NoOptions]
                /\ res' = [status |-> 200,
                           body |-> [totalPosts |-> count(posts, EmptyFilter),
                                     sentiment |-> GroupCount(posts, "sentiment"),
                                     platforms |-> GroupCount(posts, "platform"),
                                     engagement |->
                                        IF avgEngagement # <<>> THEN avgEngagement[1]
                                        ELSE [avgLikes |-> Num(0), avgShares |-> Num(0),
                                              avgComments |-> Num(0)]]]
    /\ UNCHANGED <<posts, db, client, proc, now>>

(***************************************************************************)
(* GET /api/topics/distribution                                            *)
(***************************************************************************)
\* {$unwind: '$topics'}: one document per element of topics, none for an
\* empty array
RECURSIVE Unwind(_)
Unwind(docs) ==
    IF docs = <<>> THEN <<>>
    ELSE [i \in 1..Len(Head(docs).topics) |-> [topic |-> Head(docs).topics[i], doc |-> Head(docs)]]
         \o Unwind(Tail(docs))

\* Engagement is $add: ['$likes', '$shares', '$comments'] on one unwound
\* document
TopicRows(docs) ==
    LET unwound == Unwind(docs)
        Engagement(u) == MongoAdd3(u.doc.likes, u.doc.shares, u.doc.comments)
        Row(t) ==
            LET HasTopic(u) == u.topic = t
                mine == SelectSeq(unwound, HasTopic)
            IN  [id |-> t, count |-> Len(mine),
                 avgEngagement |-> MongoAvg([i \in 1..Len(mine) |-> Engagement(mine[i])])]
    IN  {Row(t) : t \in {unwound[i].topic : i \in 1..Len(unwound)}}

getTopicsDistribution(q) ==
    LET matchStage == AssignDate(EmptyFilter, buildDateFilter(q.startDate, q.endDate))
    IN  /\ Idle
        /\ req' = [endpoint |-> "topics", query |-> q]
        /\ \E throws \in QueryThrows : IF throws
           THEN /\ res' = ServerError
                /\ issued' = NoQuery
           ELSE /\ issued' = [op |-> "aggregate", filter |-> matchStage, options |-> NoOptions]
                /\ LET rows == TopicRows(MatchedDocs(posts, matchStage))
                   IN  \E topicDist \in SortedDesc(rows, [r \in rows |-> r.count]) :
                          res' = [status |-> 200, body |-> topicDist]
        /\ UNCHANGED <<posts, db, client, proc, now>>

(***************************************************************************)
(* GET /api/influencers                                                    *)
(***************************************************************************)
DefaultInfluencersLimit == 10

\* $cond: +1 for positive, -1 for negative, 0 otherwise
Polarity(p) ==
    IF p.sentiment = "positive" THEN Num(1)
    ELSE IF p.sentiment = "negative" THEN Num(-1) ELSE Num(0)

\* $addFields totalEngagement: $add of the three totals
TotalEngagementNoComments(totalLikes, totalShares, totalComments) ==
    JsAdd(totalLikes, totalShares)

TotalEngagement(totalLikes, totalShares, totalComments) ==
    MongoAdd3(totalLikes, totalShares, totalComments)

InfluencerRows(docs) ==
    LET Row(sid) ==
            LET Mine(p) == p.sourceId = sid
                mine == SelectSeq(docs, Mine)
                totalLikes == MongoSum(FieldValues(mine, "likes"))
                totalShares == MongoSum(FieldValues(mine, "shares"))
                totalComments == MongoSum(FieldValues(mine, "comments"))
            IN  [id |-> sid,
                 totalPosts |-> Len(mine),
                 totalLikes |-> totalLikes,
                 totalShares |-> totalShares,
                 totalComments |-> totalComments,
                 avgSentiment |-> MongoAvg([i \in 1..Len(mine) |-> Polarity(mine[i])]),
                 totalEngagement |-> TotalEngagement(totalLikes, totalShares, totalComments)]
    IN  {Row(sid) : sid \in {docs[i].sourceId : i \in 1..Len(docs)}}

FirstN(seq, n) == SubSeq(seq, 1, IF n < Len(seq) THEN n ELSE Len(seq))

\* EngagementKey is the sort key of {$sort: {totalEngagement: -1}}: null
\* sorts below numbers.  {$limit: n} is rejected unless n is a positive
\* integer.
getInfluencers(q) ==
    LET matchStage == AssignDate(EmptyFilter, buildDateFilter(q.startDate, q.endDate))
        limit == ParseInt(q.limit, DefaultInfluencersLimit)
        EngagementKey(r) == IF IsNum(r.totalEngagement) THEN r.totalEngagement.n ELSE -1
        LimitStageError == ~(IsNum(limit) /\ limit.n > 0)
    IN  /\ Idle
        /\ req' = [endpoint |-> "influencers", query |-> q]
        /\ \E throws \in QueryThrows : IF throws
           THEN /\ res' = ServerError
                /\ issued' = NoQuery
           ELSE /\ issued' = [op |-> "aggregate", filter |-> matchStage,
                              options |-> [NoOptions EXCEPT !.limit = limit]]
                /\ IF LimitStageError
                   THEN res' = ServerError
                   ELSE LET rows == InfluencerRows(MatchedDocs(posts, matchStage))
                        IN  \E sorted \in SortedDesc(rows, [r \in rows |-> EngagementKey(r)]) :
                               res' = [status |-> 200, body |-> FirstN(sorted, limit.n)]
        /\ UNCHANGED <<posts, db, client, proc, now>>

(***************************************************************************)
(* The aggregate endpoints under test.                                     *)
(***************************************************************************)
AggregatePool ==
    {[BasePost EXCEPT !.postId = "a1", !.sourceId = "s1", !.sentiment = "positive",
                      !.likes = Null, !.shares = Num(5),
                      !.topics = <<"ai", "policy">>, !.time = DateOf(DayMs)],
     [BasePost EXCEPT !.postId = "a2", !.sourceId = "s1", !.sentiment = "negative",
                      !.likes = Num(4), !.shares = Num(1), !.comments = Num(2),
                      !.topics = <<"ai">>, !.time = DateOf(2 * DayMs)],
     [BasePost EXCEPT !.postId = "a3", !.sourceId = "s2",
                      !.likes = Num(3), !.shares = Num(0), !.comments = Num(0),
                      !.time = DateOf(3 * DayMs)],
     [BasePost EXCEPT !.postId = "a4", !.sourceId = "s2", !.sentiment = "positive",
                      !.topics = <<"policy">>, !.time = DateOf(2 * DayMs)],
     [BasePost EXCEPT !.postId = "a5", !.sourceId = "s3", !.sentiment = "positive",
                      !.likes = Num(2), !.shares = Num(1), !.comments = Null,
                      !.topics = <<"ai">>, !.time = DateOf(DayMs)]}

InitAggregates ==
    /\ posts \in {c \in Collections(AggregatePool) : UniqueIds(c)}
    /\ db = "connected"
    /\ client = "connected"
    /\ proc = Listening
    /\ now = 0
    /\ req = NoReq
    /\ res = NoRes
    /\ issued = NoQuery

GetOverviewStats == getOverviewStats

GetTopicsDistribution ==
    \E startDate \in DateParams, endDate \in DateParams :
        getTopicsDistribution([startDate |-> startDate, endDate |-> endDate])

GetInfluencers ==
    \E startDate \in DateParams, endDate \in {Absent, "1970-01-03"},
       limit \in {QAbsent, QStr(<<"0">>), QStr(<<"1">>), QStr(<<"2">>), QStr(<<"x">>)} :
        getInfluencers([startDate |-> startDate, endDate |-> endDate, limit |-> limit])

NextAggregates == GetOverviewStats \/ GetTopicsDistribution \/ GetInfluencers \/ Deliver

SpecAggregates == InitAggregates /\ [][NextAggregates]_vars

(***************************************************************************)
(* Properties of the aggregates.                                           *)
(***************************************************************************)
\* an engagement field with null or absent read as 0
Coalesce(x) == IF IsNum(x) THEN x.n ELSE 0

\* the posts the request's $match stage lets through
MatchedNow == MatchedDocs(posts, issued.filter)

\* the sum of a field over docs, null and absent read as 0
SumOver(docs, field) == SumInts([i \in 1..Len(docs) |-> Coalesce(docs[i][field])])

\* the mean of a field over docs with every document in the divisor
MeanOver(docs, field) == Rat(SumOver(docs, field), Len(docs))

\* the mean of likes + shares + comments over docs, every document counted
MeanEngagement(docs) ==
    Rat(SumOver(docs, "likes") + SumOver(docs, "shares") + SumOver(docs, "comments"),
        Len(docs))

\* C1: in every numeric aggregate a post whose likes, shares or comments is
\* null or absent contributes 0 for that field and is counted in the divisor
\* of every average.
C1_MissingEngagementIsZero ==
    /\ (Answered("overview") /\ res.status = 200 /\ posts # <<>>)
          => /\ res.body.engagement.avgLikes = MeanOver(posts, "likes")
             /\ res.body.engagement.avgShares = MeanOver(posts, "shares")
             /\ res.body.engagement.avgComments = MeanOver(posts, "comments")
    /\ (Answered("topics") /\ res.status = 200)
          => \A i \in 1..Len(res.body) :
                LET HasTopic(p) == \E k \in 1..Len(p.topics) : p.topics[k] = res.body[i].id
                    mine == SelectSeq(MatchedNow, HasTopic)
                IN  res.body[i].avgEngagement = MeanEngagement(mine)
    /\ (Answered("influencers") /\ res.status = 200)
          => \A i \in 1..Len(res.body) :
                LET Mine(p) == p.sourceId = res.body[i].id
                    mine == SelectSeq(MatchedNow, Mine)
                IN  /\ res.body[i].totalLikes = Num(SumOver(mine, "likes"))
                    /\ res.body[i].totalShares = Num(SumOver(mine, "shares"))
                    /\ res.body[i].totalComments = Num(SumOver(mine, "comments"))

\* C10: in every row of the influencer ranking totalEngagement is
\* totalLikes + totalShares + totalComments of that row, each total being
\* the sum over the source's matched posts with null or absent read as 0;
\* the rows are in totalEngagement descending order and at most limit
\* (default 10) rows are returned.
C10_InfluencerTotals ==
    (Answered("influencers") /\ res.status = 200)
        => /\ \A i \in 1..Len(res.body) :
                LET row == res.body[i]
                    Mine(p) == p.sourceId = row.id
                    mine == SelectSeq(MatchedNow, Mine)
                IN  /\ row.totalLikes = Num(SumOver(mine, "likes"))
                    /\ row.totalShares = Num(SumOver(mine, "shares"))
                    /\ row.totalComments = Num(SumOver(mine, "comments"))
                    /\ row.totalEngagement
                          = Num(row.totalLikes.n + row.totalShares.n + row.totalComments.n)
           /\ \A i \in 1..Len(res.body), j \in 1..Len(res.body) :
                i < j => ~RatLess(res.body[i].totalEngagement, res.body[j].totalEngagement)
           /\ Len(res.body) <= ParseInt(req.query.limit, DefaultInfluencersLimit).n

\* C10 witness: three sources matched, limit=2 returned two rows, one of them
\* for a source with a null likes field and a positive shares total.
C10_Witness ==
    /\ Answered("influencers")
    /\ res.status = 200
    /\ req.query.limit = QStr(<<"2">>)
    /\ Cardinality({MatchedNow[i].sourceId : i \in 1..Len(MatchedNow)}) = 3
    /\ Len(res.body) = 2
    /\ \E i \in 1..2 :
          /\ res.body[i].id = "s1"
          /\ res.body[i].totalShares.n > 0
          /\ \E j \in 1..Len(MatchedNow) :
                MatchedNow[j].sourceId = "s1" /\ MatchedNow[j].likes = Null

(***************************************************************************)
(* GET /api/virality/early-signals                                         *)
(***************************************************************************)
MaxTicks == 2      \* how far the clock runs past ClockStart, in ms
MaxElapsed == 1    \* how long one request may take between clock reads, in ms

ViralityTop == 10

ClockStart == 2 * DayMs
ClockEnd == ClockStart + MaxTicks

\* (post.likes || 0) + (post.shares || 0) + (post.comments || 0)
totalEngagementOf(post) ==
    JsAdd(JsAdd(OrZero(post.likes), OrZero(post.shares)), OrZero(post.comments))

\* (Date.now() - new Date(post.time).getTime()) / (1000 * 60 * 60)
hoursSincePostAt(post, at) == Rat(at - post.time.t, HourMs)

\* hoursSincePost > 0 ? totalEngagement / hoursSincePost : 0
velocityUnguarded(totalEngagement, hoursSincePost) == JsDiv(totalEngagement, hoursSincePost)

velocityOf(totalEngagement, hoursSincePost) ==
    IF hoursSincePost.n > 0 THEN JsDiv(totalEngagement, hoursSincePost) ELSE Num(0)

\* Number.prototype.toFixed(1): the sign and the number of tenths, rounded
ToFixed1(x) == [neg |-> x.n < 0, tenths |-> (Abs(x.n) * 20 + x.d) \div (2 * x.d)]

\* Array.prototype.sort with the comparator b.velocity - a.velocity: stable,
\* by insertion; row goes before the head when the difference is negative
RECURSIVE InsertByVelocity(_, _)
InsertByVelocity(sorted, row) ==
    IF sorted = <<>> THEN <<row>>
    ELSE IF IsNum(row.velocity) /\ IsNum(Head(sorted).velocity)
            /\ RatLess(Head(sorted).velocity, row.velocity)
    THEN <<row>> \o sorted
    ELSE <<Head(sorted)>> \o InsertByVelocity(Tail(sorted), row)

RECURSIVE SortByVelocity(_)
SortByVelocity(rows) ==
    IF rows = <<>> THEN <<>>
    ELSE InsertByVelocity(SortByVelocity(SubSeq(rows, 1, Len(rows) - 1)), rows[Len(rows)])

\* the clock values the map callback may read for n posts: from now on,
\* never backwards, within the time one request takes
ClockReads(n) ==
    LET last == IF now + MaxElapsed < ClockEnd THEN now + MaxElapsed ELSE ClockEnd
    IN  {r \in [1..n -> now..last] : \A i \in 1..n, j \in 1..n : i < j => r[i] <= r[j]}

getViralitySignals ==
    LET last24h == DateOf(now - 24 * 60 * 60 * 1000)
        filter == [EmptyFilter EXCEPT !.hasTime = TRUE, !.gte = last24h]
    IN  /\ Idle
        /\ req' = [endpoint |-> "virality", query |-> <<>>]
        /\ \E throws \in QueryThrows : IF throws
           THEN /\ res' = ServerError
                /\ issued' = NoQuery
                /\ now' = now
           ELSE /\ issued' = [op |-> "find", filter |-> filter, options |-> NoOptions]
                /\ \E idx \in find(posts, filter, NoOptions) :
                   \E reads \in ClockReads(Len(idx)) :
                      LET recentPosts == Docs(posts, idx)
                          postsWithVelocity ==
                              [i \in 1..Len(recentPosts) |->
                                  LET hoursSincePost == hoursSincePostAt(recentPosts[i], reads[i])
                                  IN  [post |-> recentPosts[i],
                                       velocity |-> velocityOf(totalEngagementOf(recentPosts[i]),
                                                               hoursSincePost),
                                       hoursSincePost |-> ToFixed1(hoursSincePost),
                                       readAt |-> reads[i]]]
                      IN  /\ res' = [status |-> 200,
                                     body |-> FirstN(SortByVelocity(postsWithVelocity),
                                                     ViralityTop)]
                          /\ now' = IF Len(idx) = 0 THEN now ELSE reads[Len(idx)]
        /\ UNCHANGED <<posts, db, client, proc>>

\* time passes between requests
Tick ==
    /\ now < ClockEnd
    /\ now' = now + 1
    /\ UNCHANGED <<posts, db, client, proc, req, res, issued>>

ViralityPool ==
    {[BasePost EXCEPT !.postId = "v1", !.likes = Num(5),
                      !.time = DateOf(ClockStart - DayMs - 1)],
     [BasePost EXCEPT !.postId = "v2", !.likes = Num(1), !.shares = Null,
                      !.time = DateOf(ClockStart - DayMs + 1)],
     [BasePost EXCEPT !.postId = "v3", !.likes = Num(3), !.shares = Num(2),
                      !.comments = Num(1), !.time = DateOf(ClockStart - HourMs)],
     [BasePost EXCEPT !.postId = "v4", !.likes = Num(2),
                      !.time = DateOf(ClockStart + 1)],
     [BasePost EXCEPT !.postId = "v5", !.time = DateOf(ClockStart)],
     [BasePost EXCEPT !.postId = "v6", !.shares = Num(4), !.comments = Num(0),
                      !.time = DateOf(ClockStart)]}

InitVirality ==
    /\ posts \in {c \in Collections(ViralityPool) : UniqueIds(c)}
    /\ db = "connected"
    /\ client = "connected"
    /\ proc = Listening
    /\ now = ClockStart
    /\ req = NoReq
    /\ res = NoRes
    /\ issued = NoQuery

GetViralitySignals == getViralitySignals

NextVirality == GetViralitySignals \/ Tick \/ Deliver

SpecVirality == InitVirality /\ [][NextVirality]_vars

\* C6: every post of the virality result has a finite velocity >= 0: it is
\* (likes + shares + comments) / hoursSincePost when hoursSincePost > 0 and 0
\* when the post's time is the time of the computation or later, absent
\* engagement fields counting as 0.
C6_VelocityIsFinite ==
    (Answered("virality") /\ res.status = 200)
        => \A i \in 1..Len(res.body) :
              LET row == res.body[i]
                  elapsedMs == row.readAt - row.post.time.t
                  engagement == Coalesce(row.post.likes) + Coalesce(row.post.shares)
                                    + Coalesce(row.post.comments)
              IN  /\ IsFinite(row.velocity)
                  /\ row.velocity.n >= 0
                  /\ row.velocity = IF elapsedMs > 0 THEN Rat(engagement * HourMs, elapsedMs)
                                    ELSE Num(0)

\* C6 witness: the result holds a post with engagement stamped exactly at
\* the time of the computation (velocity 0), a post stamped later, and an
\* older post with a positive velocity.
C6_Witness ==
    /\ Answered("virality")
    /\ res.status = 200
    /\ \E i \in 1..Len(res.body) :
          /\ res.body[i].readAt = res.body[i].post.time.t
          /\ res.body[i].post.shares = Num(4)
          /\ res.body[i].velocity = Num(0)
    /\ \E i \in 1..Len(res.body) : res.body[i].readAt < res.body[i].post.time.t
    /\ \E i \in 1..Len(res.body) : res.body[i].velocity.n > 0

(***************************************************************************)
(* GET /api/keywords/frequency                                             *)
(***************************************************************************)
DefaultKeywordsLimit == 20

stopWords ==
    {<<"t", "h", "e">>, <<"a">>, <<"a", "n">>, <<"a", "n", "d">>,
     <<"o", "r">>, <<"b", "u", "t">>, <<"i", "n">>, <<"o", "n">>,
     <<"a", "t">>, <<"t", "o">>, <<"f", "o", "r">>, <<"o", "f">>,
     <<"w", "i", "t", "h">>, <<"b", "y">>, <<"f", "r", "o", "m">>,
     <<"a", "s">>, <<"i", "s">>, <<"w", "a", "s">>, <<"a", "r", "e">>,
     <<"w", "e", "r", "e">>, <<"b", "e", "e", "n">>, <<"b", "e">>,
     <<"h", "a", "v", "e">>, <<"h", "a", "s">>, <<"h", "a", "d">>,
     <<"d", "o">>, <<"d", "o", "e", "s">>, <<"d", "i", "d">>,
     <<"w", "i", "l", "l">>, <<"w", "o", "u", "l", "d">>,
     <<"c", "o", "u", "l", "d">>, <<"s", "h", "o", "u", "l", "d">>,
     <<"m", "a", "y">>, <<"m", "i", "g", "h", "t">>, <<"m", "u", "s", "t">>,
     <<"c", "a", "n">>, <<"t", "h", "i", "s">>, <<"t", "h", "a", "t">>,
     <<"t", "h", "e", "s", "e">>, <<"t", "h", "o", "s", "e">>, <<"i">>,
     <<"y", "o", "u">>, <<"h", "e">>, <<"s", "h", "e">>, <<"i", "t">>,
     <<"w", "e">>, <<"t", "h", "e", "y">>}

\* \b at the gap before position i of s (i in 1..Len(s)+1); \w is the
\* letters, the digits and the underscore
WordBoundary(s, i) ==
    LET IsWordChar(c) == IsLower(c) \/ IsUpper(c) \/ c \in Digits \/ c = "_"
        before == i > 1 /\ IsWordChar(s[i - 1])
        after == i <= Len(s) /\ IsWordChar(s[i])
    IN  before # after

\* the number of characters of [a-z] in a row from position i
RECURSIVE LowerRun(_, _)
LowerRun(s, i) == IF i <= Len(s) /\ IsLower(s[i]) THEN 1 + LowerRun(s, i + 1) ELSE 0

MinWordLen == 3

\* the length of the match of \b[a-z]{3,}\b at position i, 0 when there is
\* none: the longest run first, then shorter ones
MatchLenAt(s, i) ==
    LET run == LowerRun(s, i)
        ok == {n \in MinWordLen..run : WordBoundary(s, i + n)}
    IN  IF WordBoundary(s, i) /\ ok # {} THEN CHOOSE n \in ok : \A m \in ok : m <= n ELSE 0

\* text.match(/\b[a-z]{3,}\b/g) || []: the matches from position i on
RECURSIVE MatchAllFrom(_, _)
MatchAllFrom(s, i) ==
    IF i > Len(s) THEN <<>>
    ELSE LET n == MatchLenAt(s, i)
         IN  IF n > 0 THEN <<SubSeq(s, i, i + n - 1)>> \o MatchAllFrom(s, i + n)
             ELSE MatchAllFrom(s, i + 1)

\* (post.combinedText || '').toLowerCase() and its words
WordsOf(post) ==
    LET text == ToLowerCase(IF Truthy(post.combinedText) THEN post.combinedText.s ELSE <<>>)
    IN  MatchAllFrom(text, 1)

\* !stopWords.has(word)
CountsWordAlways(word) == TRUE

CountsWord(word) == word \notin stopWords

\* the tally is a sequence of [word, count] in the order the keys were
\* created, which is the order Object.entries lists them in
HasOwn(wordCount, word) == \E i \in 1..Len(wordCount) : wordCount[i].word = word

OwnIndex(wordCount, word) == CHOOSE i \in 1..Len(wordCount) : wordCount[i].word = word

\* (wordCount[word] || 0) + 1.  ObjectPrototypeWords are the names wordCount
\* inherits from Object.prototype that are words of lowercase letters:
\* reading them from the empty tally yields a function.  A tally value is a
\* number, or the string a function or string turns into when 1 is added:
\* [k |-> "string", n |-> how many "1" were appended].
NextCount(wordCount, word) ==
    LET ObjectPrototypeWords == {<<"c", "o", "n", "s", "t", "r", "u", "c", "t", "o", "r">>}
        StringCount(ones) == [k |-> "string", n |-> ones, d |-> 1]
    IN
    IF HasOwn(wordCount, word)
    THEN LET c == wordCount[OwnIndex(wordCount, word)].count
         IN  IF c.k = "string" THEN StringCount(c.n + 1)
             ELSE IF c.n # 0 THEN Num(c.n + 1) ELSE Num(1)
    ELSE IF word \in ObjectPrototypeWords THEN StringCount(1)
    ELSE Num(1)

\* wordCount[word] = (wordCount[word] || 0) + 1
Tally(wordCount, word) ==
    IF HasOwn(wordCount, word)
    THEN [wordCount EXCEPT ![OwnIndex(wordCount, word)].count = NextCount(wordCount, word)]
    ELSE Append(wordCount, [word |-> word, count |-> NextCount(wordCount, word)])

RECURSIVE TallyWords(_, _)
TallyWords(wordCount, words) ==
    IF words = <<>> THEN wordCount
    ELSE TallyWords(IF CountsWord(Head(words)) THEN Tally(wordCount, Head(words))
                    ELSE wordCount,
                    Tail(words))

RECURSIVE TallyPosts(_, _)
TallyPosts(wordCount, docs) ==
    IF docs = <<>> THEN wordCount
    ELSE TallyPosts(TallyWords(wordCount, WordsOf(Head(docs))), Tail(docs))

\* e goes before the head when b.count - a.count < 0 on numbers
RECURSIVE InsertByCount(_, _)
InsertByCount(sorted, e) ==
    IF sorted = <<>> THEN <<e>>
    ELSE IF Head(sorted).count.n < e.count.n THEN <<e>> \o sorted
    ELSE <<Head(sorted)>> \o InsertByCount(Tail(sorted), e)

RECURSIVE StableSortByCount(_)
StableSortByCount(entries) ==
    IF entries = <<>> THEN <<>>
    ELSE InsertByCount(StableSortByCount(SubSeq(entries, 1, Len(entries) - 1)),
                       entries[Len(entries)])

Reorderings(seq) ==
    {[i \in 1..Len(seq) |-> seq[p[i]]] :
        p \in {q \in [1..Len(seq) -> 1..Len(seq)] :
                  \A i, j \in 1..Len(seq) : i # j => q[i] # q[j]}}

\* .sort((a, b) => b.count - a.count): stable when every count is a number;
\* with a string count the comparator yields NaN, it is not a consistent
\* order and the result is whatever order the engine leaves
SortByCount(entries) ==
    IF \A i \in 1..Len(entries) : IsNum(entries[i].count)
    THEN {StableSortByCount(entries)}
    ELSE Reorderings(entries)

\* Array.prototype.slice(0, end) for end a number
Slice0(seq, end) ==
    LET e == IF ~IsNum(end) THEN 0
             ELSE IF end.n < 0 THEN (IF Len(seq) + end.n < 0 THEN 0 ELSE Len(seq) + end.n)
             ELSE IF end.n > Len(seq) THEN Len(seq) ELSE end.n
    IN  SubSeq(seq, 1, e)

getKeywordsFrequency(q) ==
    LET matchStage == AssignDate(EmptyFilter, buildDateFilter(q.startDate, q.endDate))
    IN  /\ Idle
        /\ req' = [endpoint |-> "keywords", query |-> q]
        /\ \E throws \in QueryThrows : IF throws
           THEN /\ res' = ServerError
                /\ issued' = NoQuery
           ELSE /\ issued' = [op |-> "find", filter |-> matchStage, options |-> NoOptions]
                /\ \E idx \in find(posts, matchStage, NoOptions) :
                   \E sorted \in SortByCount(TallyPosts(<<>>, Docs(posts, idx))) :
                      res' = [status |-> 200,
                              body |-> Slice0(sorted, ParseInt(q.limit, DefaultKeywordsLimit))]
        /\ UNCHANGED <<posts, db, client, proc, now>>

\* "The cat the CAT"
TextK1 ==
    QStr(<<"T", "h", "e", " ", "c", "a", "t", " ", "t", "h", "e", " ", "C",
         "A", "T">>)

\* "dog ab x1abc cat_dog Dog"
TextK4 ==
    QStr(<<"d", "o", "g", " ", "a", "b", " ", "x", "1", "a", "b", "c", " ",
         "c", "a", "t", "_", "d", "o", "g", " ", "D", "o", "g">>)

\* k2 reads "constructor dog", k5 "can you see it", k6 "bee see bee"
KeywordsPool ==
    {[BasePost EXCEPT !.postId = "k1", !.combinedText = TextK1],
     [BasePost EXCEPT !.postId = "k2", !.combinedText =
         QStr(<<"c", "o", "n", "s", "t", "r", "u", "c", "t", "o", "r", " ", "d", "o", "g">>)],
     [BasePost EXCEPT !.postId = "k3", !.text = QStr(<<"n", "o">>)],
     [BasePost EXCEPT !.postId = "k4", !.combinedText = TextK4,
                      !.time = DateOf(2 * DayMs)],
     [BasePost EXCEPT !.postId = "k5", !.combinedText =
         QStr(<<"c", "a", "n", " ", "y", "o", "u", " ", "s", "e", "e", " ", "i", "t">>)],
     [BasePost EXCEPT !.postId = "k6", !.combinedText =
         QStr(<<"b", "e", "e", " ", "s", "e", "e", " ", "b", "e", "e">>),
                      !.time = DateOf(3 * DayMs)]}

InitKeywords ==
    /\ posts \in {c \in Collections(KeywordsPool) : UniqueIds(c)}
    /\ db = "connected"
    /\ client = "connected"
    /\ proc = Listening
    /\ now = 0
    /\ req = NoReq
    /\ res = NoRes
    /\ issued = NoQuery

GetKeywordsFrequency ==
    \E startDate \in {Absent, "1970-01-02", "1970-01-03"}, endDate \in {Absent},
       limit \in {QAbsent, QStr(<<"0">>), QStr(<<"1">>), QStr(<<"2">>), QStr(<<"x">>)} :
        getKeywordsFrequency([startDate |-> startDate, endDate |-> endDate, limit |-> limit])

NextKeywords == GetKeywordsFrequency \/ Deliver

SpecKeywords == InitKeywords /\ [][NextKeywords]_vars

(***************************************************************************)
(* Properties of the keyword frequency.                                    *)
(***************************************************************************)
\* the counted words of the matched posts, in the order they are met
RECURSIVE WordsOfAll(_)
WordsOfAll(docs) ==
    IF docs = <<>> THEN <<>>
    ELSE SelectSeq(WordsOf(Head(docs)), CountsWord) \o WordsOfAll(Tail(docs))

\* w occurs in the lowercased combinedText of a matched post
OccursInSomeText(w) ==
    \E i \in 1..Len(MatchedNow) :
        LET p == MatchedNow[i]
        IN  /\ p.combinedText.k = "str"
            /\ ContainsIgnoreCase(w, p.combinedText)

\* C7: no word of the keyword-frequency result is a stop word, every word
\* is made of lowercase letters a-z only and has at least 3 of them; a post
\* without combinedText contributes no word and causes no error.
C7_WordsAreClean ==
    Answered("keywords")
        => /\ res.status = 200
           /\ \A i \in 1..Len(res.body) :
                LET w == res.body[i].word
                IN  /\ w \notin stopWords
                    /\ Len(w) >= 3
                    /\ \A k \in 1..Len(w) : IsLower(w[k])
                    /\ OccursInSomeText(w)

\* C7 witness: the matched posts include one without combinedText and one
\* whose text holds stop words, short tokens and tokens with a digit or an
\* underscore, and the result has words.
C7_Witness ==
    /\ Answered("keywords")
    /\ res.status = 200
    /\ \E i \in 1..Len(MatchedNow) : MatchedNow[i].combinedText = QAbsent
    /\ \E i \in 1..Len(MatchedNow) : MatchedNow[i].combinedText = TextK4
    /\ \E i \in 1..Len(MatchedNow) : MatchedNow[i].combinedText = TextK1
    /\ Len(res.body) >= 2

\* C8: the result lists {word, count} with count the number of occurrences
\* of the word in the matched posts, by count descending, equal counts in
\* the order the words were first met, and holds exactly the first N
\* entries of that order (all when there are fewer), N the limit, default 20.
C8_TopNByCount ==
    (Answered("keywords") /\ res.status = 200 /\ IsNumeral(req.query.limit))
        => LET all == WordsOfAll(MatchedNow)
               N == ParseInt(req.query.limit, DefaultKeywordsLimit).n
               distinct == {all[i] : i \in 1..Len(all)}
               Occurrences(w) == Cardinality({i \in 1..Len(all) : all[i] = w})
               FirstMet(w) == CHOOSE i \in 1..Len(all) :
                                 all[i] = w /\ \A j \in 1..(i - 1) : all[j] # w
               Before(v, w) ==
                   \/ Occurrences(v) > Occurrences(w)
                   \/ Occurrences(v) = Occurrences(w) /\ FirstMet(v) < FirstMet(w)
               listed == {res.body[i].word : i \in 1..Len(res.body)}
           IN  /\ Len(res.body) = (IF N < Cardinality(distinct) THEN N
                                   ELSE Cardinality(distinct))
               /\ listed \subseteq distinct
               /\ \A i \in 1..Len(res.body) :
                     res.body[i].count = Num(Occurrences(res.body[i].word))
               /\ \A i \in 1..Len(res.body), j \in 1..Len(res.body) :
                     i < j => Before(res.body[i].word, res.body[j].word)
               /\ \A v \in listed, w \in distinct \ listed : Before(v, w)

(***************************************************************************)
(* GET /api/posts/export                                                   *)
(*                                                                         *)
(* The CSV text is a sequence of characters.  An opaque string (postId,    *)
(* platform, sourceId, sentiment, a topic, a header name) is written as    *)
(* one element of that sequence for each run of its characters that holds  *)
(* no comma, double quote or line break, and one element for each of       *)
(* those.                                                                  *)
(***************************************************************************)
ExportLimit == 10000

ExportFilter(q) ==
    AssignDate(
        [EmptyFilter EXCEPT
            !.or = IF Truthy(q.keyword) THEN buildTextSearchFilter(q.keyword) ELSE QAbsent,
            !.sentiment = IF TruthyS(q.sentiment) THEN q.sentiment ELSE Absent,
            !.platform = IF TruthyS(q.platform) THEN q.platform ELSE Absent,
            !.sourceId = IF TruthyS(q.sourceId) THEN q.sourceId ELSE Absent],
        buildDateFilter(q.startDate, q.endDate))

Quote == "\""

\* the characters of an opaque string
StringChars(v) ==
    CASE v = "acme,inc" -> <<"acme", ",", "inc">>
      [] v = "ai\nml" -> <<"ai", "\n", "ml">>
      [] OTHER -> <<v>>

\* Array.prototype.join on an element: null and undefined are written as ''
JoinedString(v) == IF v = Absent THEN <<>> ELSE StringChars(v)

\* String(n) for an integer n >= 0
RECURSIVE NatString(_)
NatString(n) ==
    LET DigitChar(m) == CHOOSE c \in Digits : DigitVal(c) = m
    IN  IF n < 10 THEN <<DigitChar(n)>> ELSE NatString(n \div 10) \o <<DigitChar(n % 10)>>

\* a number-like value as join writes it
JoinedNumber(x) == IF IsNum(x) THEN NatString(x.n) ELSE <<>>

\* String(date): a text without comma, quote or line break; the model
\* writes the instant
JoinedDate(d) == <<"Date ">> \o NatString(d.t)

\* seqs joined with the separator sep
RECURSIVE Join(_, _)
Join(seqs, sep) ==
    IF seqs = <<>> THEN <<>>
    ELSE IF Len(seqs) = 1 THEN seqs[1]
    ELSE seqs[1] \o <<sep>> \o Join(Tail(seqs), sep)

\* str.replace(/"/g, '""')
RECURSIVE DoubleQuotes(_)
DoubleQuotes(str) ==
    IF str = <<>> THEN <<>>
    ELSE IF Head(str) = Quote THEN <<Quote, Quote>> \o DoubleQuotes(Tail(str))
    ELSE <<Head(str)>> \o DoubleQuotes(Tail(str))

\* str.replace(/"/, '""'): the first quote only
RECURSIVE DoubleFirstQuote(_)
DoubleFirstQuote(str) ==
    IF str = <<>> THEN <<>>
    ELSE IF Head(str) = Quote THEN <<Quote, Quote>> \o Tail(str)
    ELSE <<Head(str)>> \o DoubleFirstQuote(Tail(str))

\* `"${(p.text || '').replace(/"/g, '""')}"`
csvTextFieldFirstOnly(text) ==
    <<Quote>> \o DoubleFirstQuote(IF Truthy(text) THEN text.s ELSE <<>>) \o <<Quote>>

csvTextField(text) ==
    <<Quote>> \o DoubleQuotes(IF Truthy(text) THEN text.s ELSE <<>>) \o <<Quote>>

csvHeaders ==
    <<"Post ID", "Platform", "Source", "Text", "Sentiment", "Confidence", "Topics",
      "Likes", "Shares", "Comments", "Date">>

\* the row of one post: 11 fields
csvRow(p) ==
    <<JoinedString(p.postId),
      JoinedString(p.platform),
      JoinedString(p.sourceId),
      csvTextField(p.text),
      JoinedString(p.sentiment),
      JoinedNumber(p.sentimentConfidence),
      Join([i \in 1..Len(p.topics) |-> JoinedString(p.topics[i])], ";"),
      JoinedNumber(OrZero(p.likes)),
      JoinedNumber(OrZero(p.shares)),
      JoinedNumber(OrZero(p.comments)),
      JoinedDate(p.time)>>

\* [headers.join(','), ...rows.map(r => r.join(','))].join('\n')
csvText(rows) ==
    Join(<<Join([i \in 1..Len(csvHeaders) |-> <<csvHeaders[i]>>], ",")>>
         \o [i \in 1..Len(rows) |-> Join(rows[i], ",")], "\n")

\* res.status(500).json({ error: 'Export failed' })
ExportFailed == [status |-> 500, body |-> [error |-> "Export failed"]]

\* A text that is a number (k = "num") has no replace method: mapping such
\* a post throws a TypeError, which the handler catches.
exportPosts(q) ==
    LET filter == ExportFilter(q)
        options == [NoOptions EXCEPT !.limit = Num(ExportLimit)]
    IN  /\ Idle
        /\ req' = [endpoint |-> "export", query |-> q]
        /\ \E throws \in QueryThrows : IF throws
           THEN /\ res' = ExportFailed
                /\ issued' = NoQuery
           ELSE /\ issued' = [op |-> "find", filter |-> filter, options |-> options]
                /\ \E idx \in find(posts, filter, options) :
                      LET rows == [i \in 1..Len(idx) |-> csvRow(posts[idx[i]])]
                      IN  IF \E i \in 1..Len(idx) : posts[idx[i]].text.k = "num"
                          THEN res' = ExportFailed
                          ELSE res' = [status |-> 200,
                                       body |-> [contentType |-> "text/csv",
                                                 rows |-> rows,
                                                 csv |-> csvText(rows)]]
        /\ UNCHANGED <<posts, db, client, proc, now>>

\* He said "hi"
TextE1 ==
    QStr(<<"H", "e", " ", "s", "a", "i", "d", " ", "\"", "h", "i", "\"">>)

ExportPool ==
    {[BasePost EXCEPT !.postId = "e1", !.text = TextE1, !.sentiment = "positive",
                      !.likes = Num(12), !.topics = <<"ai", "policy">>],
     [BasePost EXCEPT !.postId = "e2", !.sentiment = "negative", !.shares = Null],
     [BasePost EXCEPT !.postId = "e3", !.text = QStr(<<"a", ",", "b">>),
                      !.sentiment = "positive"],
     [BasePost EXCEPT !.postId = "e4", !.text = QStr(<<Quote, Quote>>)],
     [BasePost EXCEPT !.postId = "e5", !.text = QStr(<<>>), !.comments = Num(7)],
     [BasePost EXCEPT !.postId = "e6", !.text = QStr(<<"h", "\n", Quote>>),
                      !.time = DateOf(2 * DayMs)],
     [BasePost EXCEPT !.postId = "e7", !.sourceId = "acme,inc",
                      !.text = QStr(<<"h", "i">>), !.topics = <<"ai\nml">>]}

InitExport ==
    /\ posts \in {c \in Collections(ExportPool) : UniqueIds(c)}
    /\ db = "connected"
    /\ client = "connected"
    /\ proc = Listening
    /\ now = 0
    /\ req = NoReq
    /\ res = NoRes
    /\ issued = NoQuery

ExportPosts ==
    \E keyword \in {QAbsent, QStr(<<"h">>)}, sentiment \in {Absent, "positive"},
       endDate \in {Absent, "1970-01-02"} :
        exportPosts([keyword |-> keyword, sentiment |-> sentiment, startDate |-> Absent,
                     endDate |-> endDate, platform |-> Absent, sourceId |-> Absent])

NextExport == ExportPosts \/ Deliver

SpecExport == InitExport /\ [][NextExport]_vars

(***************************************************************************)
(* Properties of the export.                                               *)
(***************************************************************************)
NotCsv == <<"<not a quoted field>">>

\* standard CSV unquoting of the inside of a quoted field: a doubled quote
\* is a quote; a quote on its own does not belong there
RECURSIVE CsvUnescape(_)
CsvUnescape(inner) ==
    IF inner = <<>> THEN <<>>
    ELSE IF Head(inner) # Quote
         THEN LET rest == CsvUnescape(Tail(inner))
              IN  IF rest = NotCsv THEN NotCsv ELSE <<Head(inner)>> \o rest
    ELSE IF Len(inner) >= 2 /\ inner[2] = Quote
         THEN LET rest == CsvUnescape(SubSeq(inner, 3, Len(inner)))
              IN  IF rest = NotCsv THEN NotCsv ELSE <<Quote>> \o rest
    ELSE NotCsv

\* standard CSV unquoting of a quoted field
CsvUnquote(field) ==
    IF Len(field) >= 2 /\ field[1] = Quote /\ field[Len(field)] = Quote
    THEN CsvUnescape(SubSeq(field, 2, Len(field) - 1))
    ELSE NotCsv

\* the text of a post, '' when it has none
TextOrEmpty(p) == IF p.text.k = "str" THEN p.text.s ELSE <<>>

\* C9: the Text field of every exported row is a double quote, the text
\* with each double quote doubled, then a double quote, and CSV unquoting of
\* the field gives back the text; an absent text is written as "".
C9_TextFieldRoundTrips ==
    (Answered("export") /\ res.status = 200)
        => /\ Len(res.body.rows) = Len(MatchedNow)
           /\ \A i \in 1..Len(res.body.rows) :
                LET field == res.body.rows[i][4]
                    t == TextOrEmpty(MatchedNow[i])
                IN  /\ CsvUnquote(field) = t
                    /\ Len(field) = Len(t) + 2
                                      + Cardinality({k \in 1..Len(t) : t[k] = Quote})
                    /\ MatchedNow[i].text = QAbsent => field = <<Quote, Quote>>
                    /\ MatchedNow[i].text = TextE1 =>
                          field = <<Quote>> \o SubSeq(TextE1.s, 1, 8) \o <<Quote, Quote>>
                                    \o <<"h", "i">> \o <<Quote, Quote, Quote>>

\* C9 witness: an export that wrote the text He said "hi" and a post
\* without text.
C9_Witness ==
    /\ Answered("export")
    /\ res.status = 200
    /\ \E i \in 1..Len(MatchedNow) : MatchedNow[i].text = TextE1
    /\ \E i \in 1..Len(MatchedNow) : MatchedNow[i].text = QAbsent

(***************************************************************************)
(* GET /api/sentiment/distribution                                         *)
(***************************************************************************)
GetSentimentDistribution ==
    \E startDate \in {Absent, "1970-01-03", "soon"}, groupBy \in {Absent, "source", "topic"} :
        LET matchStage == AssignDate(EmptyFilter, buildDateFilter(startDate, Absent))
            docs == MatchedDocs(posts, matchStage)
            \* $arrayElemAt: ['$topics', 0]: missing for an empty array
            GroupId(p) ==
                IF groupBy = "source" THEN <<p.sentiment, p.sourceId>>
                ELSE IF groupBy = "topic"
                     THEN <<p.sentiment, IF p.topics = <<>> THEN Absent ELSE p.topics[1]>>
                ELSE <<p.sentiment>>
            Row(g) ==
                LET InGroup(p) == GroupId(p) = g
                    mine == SelectSeq(docs, InGroup)
                IN  [id |-> g, count |-> Len(mine),
                     avgConfidence |-> MongoAvg(FieldValues(mine, "sentimentConfidence"))]
            rows == {Row(GroupId(docs[i])) : i \in 1..Len(docs)}
        IN  /\ Idle
            /\ req' = [endpoint |-> "sentiment",
                       query |-> [startDate |-> startDate, groupBy |-> groupBy]]
            /\ \E throws \in QueryThrows : IF throws
               THEN /\ res' = ServerError
                    /\ issued' = NoQuery
               ELSE /\ issued' = [op |-> "aggregate", filter |-> matchStage,
                                  options |-> NoOptions]
                    /\ \E sorted \in SortedDesc(rows, [r \in rows |-> r.count]) :
                          res' = [status |-> 200, body |-> sorted]
            /\ UNCHANGED <<posts, db, client, proc, now>>

(***************************************************************************)
(* GET /api/trends/timeline.  $dateToString writes the day of a date and   *)
(* null for a missing time; the rows are sorted by day, ascending.         *)
(***************************************************************************)
GetTimeline ==
    \E endDate \in {Absent, "1970-01-02"}, platform \in {Absent, "twitter"} :
        LET matchStage ==
                [AssignDate(EmptyFilter, buildDateFilter(Absent, endDate)) EXCEPT
                    !.platform = IF TruthyS(platform) THEN platform ELSE Absent]
            docs == MatchedDocs(posts, matchStage)
            Day(p) == IF p.time.k = "date" THEN p.time.t \div DayMs ELSE -1
            GroupId(p) == [date |-> Day(p), sentiment |-> p.sentiment]
            rows == {[id |-> GroupId(docs[i]),
                      count |-> Cardinality({j \in 1..Len(docs) :
                                               GroupId(docs[j]) = GroupId(docs[i])})] :
                        i \in 1..Len(docs)}
        IN  /\ Idle
            /\ req' = [endpoint |-> "timeline",
                       query |-> [endDate |-> endDate, platform |-> platform]]
            /\ \E throws \in QueryThrows : IF throws
               THEN /\ res' = ServerError
                    /\ issued' = NoQuery
               ELSE /\ issued' = [op |-> "aggregate", filter |-> matchStage,
                                  options |-> NoOptions]
                    /\ \E sorted \in SortedDesc(rows, [r \in rows |-> -r.id.date]) :
                          res' = [status |-> 200, body |-> sorted]
            /\ UNCHANGED <<posts, db, client, proc, now>>

(***************************************************************************)
(* GET /api/filters/options: the distinct values, without the falsy ones   *)
(***************************************************************************)
GetFilterOptions ==
    LET Distinct(field) == {posts[i][field] : i \in 1..Len(posts)} \ {Absent}
        unwound == Unwind(posts)
    IN  /\ Idle
        /\ req' = [endpoint |-> "filters", query |-> <<>>]
        /\ \E throws \in QueryThrows : IF throws
           THEN /\ res' = ServerError
                /\ issued' = NoQuery
           ELSE /\ issued' = [op |-> "distinct", filter |-> EmptyFilter, options |-> NoOptions]
                /\ res' = [status |-> 200,
                           body |-> [sources |-> Distinct("sourceId"),
                                     platforms |-> Distinct("platform"),
                                     sentiments |-> Distinct("sentiment"),
                                     topics |-> {unwound[i].topic : i \in 1..Len(unwound)}]]
        /\ UNCHANGED <<posts, db, client, proc, now>>

(***************************************************************************)
(* The database module (config/database.js).  proc.main is the position of *)
(* the call of connect(): "start" before it, "connecting" while it awaits  *)
(* client.connect(), then "returned" or "threw".                           *)
(***************************************************************************)
NotStarted == [main |-> "start", sigint |-> "idle", exit |-> "running"]

\* connect() up to its await: without MONGODB_URI it throws before a client
\* is constructed
DatabaseConnect ==
    /\ proc.main \in {"start", "threw"}
    /\ \E uri \in {"mongodb://host", Absent} :
          IF ~TruthyS(uri)
          THEN /\ proc' = [proc EXCEPT !.main = "threw"]
               /\ client' = client
          ELSE /\ proc' = [proc EXCEPT !.main = "connecting"]
               /\ client' = "created"
    /\ UNCHANGED <<posts, db, now, req, res, issued>>

\* connect() from its await on: client.connect() resolves and db is set, or
\* it rejects and the error is thrown on
DatabaseConnected ==
    /\ proc.main = "connecting"
    /\ \E resolved \in BOOLEAN :
          IF resolved
          THEN /\ db' = "connected"
               /\ client' = IF client = "closed" THEN "closed" ELSE "connected"
               /\ proc' = [proc EXCEPT !.main = "returned"]
          ELSE /\ db' = db
               /\ client' = IF client = "closed" THEN "closed" ELSE "failed"
               /\ proc' = [proc EXCEPT !.main = "threw"]
    /\ UNCHANGED <<posts, now, req, res, issued>>

\* close(): closes the client when there is one, and leaves db as it is
DatabaseClose ==
    /\ client' = IF client # "null" THEN "closed" ELSE client
    /\ UNCHANGED <<posts, db, proc, now, req, res, issued>>

\* GET /health
healthCheck ==
    /\ Idle
    /\ req' = [endpoint |-> "health", query |-> <<>>]
    /\ res' = [status |-> 200,
               body |-> [status |-> "OK",
                         database |-> IF db # "null" THEN "connected" ELSE "disconnected"]]
    /\ issued' = NoQuery
    /\ UNCHANGED <<posts, db, client, proc, now>>

(***************************************************************************)
(* The controller on top of the database module: every endpoint, in every  *)
(* state of the connection.  d2 holds a text that is a number.             *)
(***************************************************************************)
DatabasePool ==
    {[BasePost EXCEPT !.postId = "d1", !.text = QStr(<<"a", "b">>),
                      !.combinedText = QStr(<<"c", "a", "t">>),
                      !.sentiment = "positive", !.likes = Num(3),
                      !.topics = <<"ai">>],
     [BasePost EXCEPT !.postId = "d2", !.text = [k |-> "num", s |-> <<>>],
                      !.sentiment = "negative", !.sourceId = "s2",
                      !.time = DateOf(2 * DayMs)],
     [BasePost EXCEPT !.postId = "d3", !.platform = "facebook",
                      !.sentimentConfidence = Num(1), !.shares = Num(2),
                      !.topics = <<"ai", "policy">>, !.time = DateOf(3 * DayMs)]}

InitDatabase ==
    /\ posts \in {c \in Collections(DatabasePool) : UniqueIds(c)}
    /\ db = "null"
    /\ client = "null"
    /\ proc = NotStarted
    /\ now = ClockStart
    /\ req = NoReq
    /\ res = NoRes
    /\ issued = NoQuery

NextDatabase ==
    \/ DatabaseConnect \/ DatabaseConnected \/ DatabaseClose \/ healthCheck
    \/ GetOverviewStats \/ GetPostsByKeyword \/ GetPostsByDate \/ GetPostsPaged
    \/ ExportPosts \/ GetSentimentDistribution \/ GetTopicsDistribution
    \/ GetInfluencers \/ GetViralitySignals \/ GetTimeline \/ GetKeywordsFrequency
    \/ GetFilterOptions \/ Deliver

SpecDatabase == InitDatabase /\ [][NextDatabase]_vars

(***************************************************************************)
(* Properties of the error handling.                                       *)
(***************************************************************************)
\* the handler of an /api endpoint answers a request in this step
ApiAnswers == Idle /\ ~Idle' /\ req'.endpoint # "health"

\* an exception is raised while the request of this step is handled: the
\* database is not connected, the query is rejected (a negative skip, a
\* $limit that is not positive), or a matched post cannot be written as CSV
Raises ==
    LET q == req'.query
    IN  \/ db = "null"
        \/ /\ req'.endpoint = "posts"
           /\ IsNum(ParseInt(q.skip, DefaultPostsSkip))
           /\ ParseInt(q.skip, DefaultPostsSkip).n < 0
        \/ /\ req'.endpoint = "influencers"
           /\ LET l == ParseInt(q.limit, DefaultInfluencersLimit)
              IN  ~IsNum(l) \/ l.n <= 0
        \/ /\ req'.endpoint = "export"
           /\ \E j \in 1..Len(posts) :
                 Matches(posts[j], ExportFilter(q)) /\ posts[j].text.k = "num"

\* C11: a request to an /api endpoint gets one response, with status 200 or
\* 500; when an exception is raised while it is handled the status is 500;
\* a 500 response holds only the generic error message ("Export failed" for
\* the export); at most one query is issued for the request, and the
\* connection, the process and the collection are as they were, so that
\* later requests are served.
C11_FailureIsGeneric500 ==
    [][ApiAnswers =>
          /\ res'.status \in {200, 500}
          /\ Raises => res'.status = 500
          /\ res'.status = 500 =>
                /\ res'.body = [error |-> IF req'.endpoint = "export"
                                          THEN "Export failed"
                                          ELSE "Internal server error"]
                /\ DOMAIN res'.body = {"error"}
          /\ issued'.op \in {"none", "find", "aggregate", "distinct"}
          /\ <<posts, db, client, proc>>' = <<posts, db, client, proc>>]_vars

\* C11 witness: the export has matched a post whose text is a number on a
\* connected database and has answered 500 "Export failed".
C11_Witness ==
    /\ Answered("export")
    /\ db = "connected"
    /\ client = "connected"
    /\ issued.op = "find"
    /\ \E i \in 1..Len(MatchedNow) : MatchedNow[i].text.k = "num"
    /\ res.status = 500
    /\ res.body.error = "Export failed"

(***************************************************************************)
(* The monolithic entry point (server.js).  proc is the process:           *)
(*   main    "start" before connectDB() is called, "connecting" while it   *)
(*           awaits client.connect(), "listening" once app.listen ran      *)
(*   sigint  "idle", or "closing" while the SIGINT handler awaits          *)
(*           client.close()                                                *)
(*   exit    "running", "exit0" or "exit1"                                 *)
(* The module calls connectDB() and then registers the SIGINT handler, so  *)
(* the handler exists from "connecting" on.                                *)
(***************************************************************************)
\* connectDB() up to its await: new MongoClient(undefined) throws, and the
\* catch ends the process
ConnectDB ==
    /\ proc = NotStarted
    /\ \E uri \in {"mongodb://host", Absent} :
          IF ~TruthyS(uri)
          THEN /\ proc' = [proc EXCEPT !.exit = "exit1"]
               /\ client' = client
          ELSE /\ proc' = [proc EXCEPT !.main = "connecting"]
               /\ client' = "created"
    /\ UNCHANGED <<posts, db, now, req, res, issued>>

\* connectDB() from its await on, and the then() of the startup: connect
\* resolves, db is set and the server listens; or connect rejects and the
\* catch ends the process.  A close() in between leaves both open.
ConnectDBSettled ==
    /\ proc.main = "connecting"
    /\ proc.exit = "running"
    /\ \E resolved \in BOOLEAN :
          IF resolved
          THEN /\ db' = "connected"
               /\ client' = IF client = "closed" THEN "closed" ELSE "connected"
               /\ proc' = [proc EXCEPT !.main = "listening"]
          ELSE /\ db' = db
               /\ client' = IF client = "closed" THEN "closed" ELSE "failed"
               /\ proc' = [proc EXCEPT !.exit = "exit1"]
    /\ UNCHANGED <<posts, now, req, res, issued>>

\* the SIGINT handler up to its await
Sigint ==
    /\ proc.main # "start"
    /\ proc.sigint = "idle"
    /\ proc.exit = "running"
    /\ IF client # "null"
       THEN /\ client' = "closed"
            /\ proc' = [proc EXCEPT !.sigint = "closing"]
       ELSE /\ client' = client
            /\ proc' = [proc EXCEPT !.exit = "exit0"]
    /\ UNCHANGED <<posts, db, now, req, res, issued>>

\* the SIGINT handler after client.close() has resolved: process.exit(0)
SigintExit ==
    /\ proc.sigint = "closing"
    /\ proc.exit = "running"
    /\ proc' = [proc EXCEPT !.exit = "exit0"]
    /\ UNCHANGED <<posts, db, client, now, req, res, issued>>

\* app.get('/health')
ServerHealth ==
    /\ proc.main = "listening"
    /\ proc.exit = "running"
    /\ Idle
    /\ req' = [endpoint |-> "health", query |-> <<>>]
    /\ res' = [status |-> 200,
               body |-> [status |-> "OK",
                         database |-> IF db # "null" THEN "connected" ELSE "disconnected"]]
    /\ issued' = NoQuery
    /\ UNCHANGED <<posts, db, client, proc, now>>

\* app.get('/api/posts'): the filter is built as in the controller, with the
\* entry point's own buildDateFilter, which reads as Post.buildDateFilter
\* does.  The cursor is always given limit(parseInt(limit)) and
\* skip(parseInt(skip)): a NaN is a number to the driver, which sends it on;
\* the database then rejects the command or reads it as not given.
ServerGetPosts ==
    \E keyword \in {QAbsent, QStr(<<"a">>)},
       limit \in {QAbsent, QStr(<<"0">>), QStr(<<"1">>), QStr(<<"2">>),
                  QStr(<<"-", "1">>), QStr(<<"x">>), QStr(<<"2", "x">>)},
       skip \in {QAbsent, QStr(<<"0">>), QStr(<<"1">>), QStr(<<"-", "1">>), QStr(<<"x">>)} :
        LET q == PostsQuery(keyword, Absent, Absent, Absent, Absent, Absent, Absent,
                            limit, skip)
            filter ==
                AssignDate(
                    [EmptyFilter EXCEPT
                        !.or = IF Truthy(q.keyword) THEN q.keyword ELSE QAbsent,
                        !.sentiment = IF TruthyS(q.sentiment) THEN q.sentiment ELSE Absent,
                        !.platform = IF TruthyS(q.platform) THEN q.platform ELSE Absent,
                        !.sourceId = IF TruthyS(q.sourceId) THEN q.sourceId ELSE Absent,
                        !.topics = IF TruthyS(q.topic) THEN q.topic ELSE Absent],
                    buildDateFilter(q.startDate, q.endDate))
            cursor == [sort |-> TRUE,
                       limit |-> ParseInt(q.limit, 50),
                       skip |-> ParseInt(q.skip, 0)]
            Rejected ==
                IF IsNum(cursor.skip) /\ cursor.skip.n < 0 THEN {TRUE}
                ELSE IF cursor.limit = NaN \/ cursor.skip = NaN THEN {TRUE, FALSE}
                ELSE {FALSE}
        IN  /\ proc.main = "listening"
            /\ proc.exit = "running"
            /\ Idle
            /\ req' = [endpoint |-> "posts", query |-> q]
            /\ \E throws \in QueryThrows : IF throws
               THEN /\ res' = ServerError
                    /\ issued' = NoQuery
               ELSE /\ issued' = [op |-> "find", filter |-> filter, options |-> cursor]
                    /\ \E rejected \in Rejected : IF rejected
                       THEN res' = ServerError
                       ELSE \E idx \in find(posts, filter, cursor) :
                              res' = [status |-> 200,
                                      body |-> [posts |-> Docs(posts, idx),
                                                total |-> count(posts, filter),
                                                page |-> JsonNumber(
                                                    JsAdd(JsFloor(JsDiv(ToNumber(q.skip, 0),
                                                                        ToNumber(q.limit, 50))),
                                                          Num(1)))]]
            /\ UNCHANGED <<posts, db, client, proc, now>>

InitServer ==
    /\ posts \in {c \in Collections(PostPool) : UniqueIds(c)}
    /\ db = "null"
    /\ client = "null"
    /\ proc = NotStarted
    /\ now = 0
    /\ req = NoReq
    /\ res = NoRes
    /\ issued = NoQuery

NextServer ==
    \/ ConnectDB \/ ConnectDBSettled \/ Sigint \/ SigintExit
    \/ ServerHealth \/ ServerGetPosts \/ Deliver

SpecServer == InitServer /\ [][NextServer]_vars

(***************************************************************************)
(* Properties of the process lifecycle.                                    *)
(***************************************************************************)
\* C12: the server listens only with db set by a completed connect; a
\* process that has exited with code 1 has never listened; and once the
\* termination signal was received the process, when it has exited, has
\* exited with code 0 and with the client closed.
C12_LifecycleOrder ==
    /\ proc.main = "listening" => db = "connected"
    /\ ~Idle => proc.main = "listening"
    /\ proc.exit = "exit1" => proc.main # "listening"
    /\ (proc.sigint = "closing" /\ proc.exit # "running")
          => (proc.exit = "exit0" /\ client = "closed")

(***************************************************************************)
(* Properties of the health check.                                         *)
(***************************************************************************)
\* C13: the health check answers every request with status 200 and status
\* OK, and its database field is "connected" exactly when the connection is
\* established at that moment (connect() has completed and close() has not
\* been called), "disconnected" otherwise.
C13_HealthReportsConnection ==
    [][(Idle /\ req'.endpoint = "health") =>
          /\ res'.status = 200
          /\ res'.body.status = "OK"
          /\ res'.body.database \in {"connected", "disconnected"}
          /\ res'.body.database = "connected" <=> client = "connected"]_vars

(***************************************************************************)
(* Properties of the two versions of the post listing.                     *)
(***************************************************************************)
\* C14: for every collection and every request, the answer of the entry
\* point's /api/posts is an answer of DashboardController.getPosts with
\* Post.find to the same request (same status, same body), and the filter,
\* sort, limit and skip it gives the database are the ones Post.find gives
\* it; a limit or skip of 0 counts as one that is not given.
C14_MonolithMatchesController ==
    (Answered("posts") /\ issued.op = "find")
        => LET q == req.query
               filter == PostsFilter(q)
               options == PostsOptions(q)
               Called(x) == IF TruthyNum(x) THEN x ELSE Undefined
               Given(x) == IF x = Num(0) THEN Undefined ELSE x
           IN  /\ issued.filter = filter
               /\ issued.options.sort = options.sort
               /\ Given(issued.options.limit) = Called(options.limit)
               /\ Given(issued.options.skip) = Called(options.skip)
               /\ IF FindError(options)
                  THEN res = ServerError
                  ELSE \E idx \in find(posts, filter, options) :
                          res = [status |-> 200,
                                 body |-> [posts |-> Docs(posts, idx),
                                           total |-> count(posts, filter),
                                           page |-> JsonNumber(PostsPage(q))]]

(***************************************************************************)
(* Properties of the CSV text.                                             *)
(***************************************************************************)
\* is position i of s outside the quoted fields: an even number of double
\* quotes comes before it (a doubled quote counts twice)
OutsideQuotes(s, i) == Cardinality({j \in 1..(i - 1) : s[j] = Quote}) % 2 = 0

\* the pieces of s between the positions in seps
SplitAt(s, seps) ==
    LET Nth(k) ==
            IF k = 0 THEN 0
            ELSE IF k > Cardinality(seps) THEN Len(s) + 1
            ELSE CHOOSE x \in seps : Cardinality({y \in seps : y < x}) = k - 1
    IN  [k \in 1..(Cardinality(seps) + 1) |-> SubSeq(s, Nth(k - 1) + 1, Nth(k) - 1)]

\* standard CSV reading of the text s: the records, each a sequence of
\* fields.  A line break outside quotes ends a record and a comma outside
\* quotes ends a field; a quoted field stands for its unquoted content.
CsvRecords(s) ==
    LET lines == SplitAt(s, {i \in 1..Len(s) : s[i] = "\n" /\ OutsideQuotes(s, i)})
        Fields(r) == SplitAt(r, {i \in 1..Len(r) : r[i] = "," /\ OutsideQuotes(r, i)})
        Value(f) == IF f # <<>> /\ f[1] = Quote THEN CsvUnquote(f) ELSE f
    IN  [l \in 1..Len(lines) |->
            [k \in 1..Len(Fields(lines[l])) |-> Value(Fields(lines[l])[k])]]

\* the characters of an opaque value, none for a missing one
CharsOrEmpty(v) == IF v = Absent THEN <<>> ELSE StringChars(v)

\* C15: read as CSV, the export is the record of the 11 header names and
\* then one record for each exported post, in order; every post record has
\* 11 fields, with the post's id, platform, source, text and sentiment in
\* the fields of those names; at most 10000 posts are written.
C15_CsvRecordsHaveElevenFields ==
    (Answered("export") /\ res.status = 200)
        => LET records == CsvRecords(res.body.csv)
               n == Len(MatchedNow)
           IN  /\ n <= ExportLimit
               /\ Len(records) = 1 + n
               /\ records[1] = [i \in 1..11 |-> <<csvHeaders[i]>>]
               /\ \A i \in 1..n :
                     LET r == records[i + 1]
                         p == MatchedNow[i]
                     IN  /\ Len(r) = 11
                         /\ r[1] = CharsOrEmpty(p.postId)
                         /\ r[2] = CharsOrEmpty(p.platform)
                         /\ r[3] = CharsOrEmpty(p.sourceId)
                         /\ r[4] = TextOrEmpty(p)
                         /\ r[5] = CharsOrEmpty(p.sentiment)

====
